---- MODULE Spec2Model ----
(***************************************************************************)
(* closestPlane (src/main.c): the main loop of main() and the refresh      *)
(* cycle fetch_and_process_data(), as a state machine.                     *)
(*                                                                         *)
(* Representation of C values:                                             *)
(*   double  fixed point, in hundredths (lat/lon in 1/100 degree,          *)
(*           distance_km in 1/100 km, so 999999.9 is 99999990);            *)
(*   char[]  a sequence of one-character strings; snprintf truncates;      *)
(*   Uint32  a natural number: the clock of SDL_GetTicks (ms) only grows   *)
(*           and stays far below 2^32 within the bounds;                   *)
(*   cJSON   a record [type, valuestring, valuedouble, valueint];          *)
(*           the NULL pointer is the item of type "NULL".                  *)
(***************************************************************************)
EXTENDS Integers, Sequences, FiniteSets, TLC

\* ------------------------------------------------------------------ bounds
\* longest aircraft array a feed response carries
MaxAircraft == 3
\* one step of the clock, in ms, and the number of steps the clock can make:
\* MaxQuanta with the whole catalogue of answers (Spec), MaxTimingQuanta with
\* the short catalogue of the runs that look at the schedule (SpecTiming)
TickMs == 4000
MaxQuanta == 4
MaxTimingQuanta == 5
\* the headings given to track_to_direction are the multiples of 11.25 degrees
\* from -MaxHeadingSteps to +MaxHeadingSteps steps (two turns either way)
MaxHeadingSteps == 64

\* ------------------------------------------------------- program constants
\* EARTH_RADIUS_KM 6371.0, in 1/100 km
EARTH_RADIUS_KM == 637100
REFRESH_INTERVAL_SECONDS == 5
\* curl_easy_setopt(curl_handle, CURLOPT_TIMEOUT, 10L), in seconds
CURLOPT_TIMEOUT == 10
\* PROXIMITY_ALERT_KM 5.0, in 1/100 km
PROXIMITY_ALERT_KM == 500
\* the "no distance" value 999999.9, in 1/100 km
DISTANCE_SENTINEL == 99999990
\* the observer of location.conf (lat=0, lon=0), in 1/100 degree
g_user_lat == 0
g_user_lon == 0

\* ----------------------------------------------------------------- strings
Min(a, b) == IF a < b THEN a ELSE b
Abs(x) == IF x < 0 THEN -x ELSE x

\* snprintf(dst, size, "%s", s): at most size-1 characters are stored
snprintf(size, s) == SubSeq(s, 1, Min(Len(s), size - 1))

SIZE_flight == 24
SIZE_hex == 10
SIZE_squawk == 6
SIZE_registration == 24
SIZE_aircraft_type == 24
SIZE_operator == 40

NA == <<"N", "/", "A">>
BLANK == <<" ">>
WAITING_FOR_DATA ==
    <<"W","a","i","t","i","n","g"," ","f","o","r"," ","d","a","t","a",".",".",".">>
NO_AIRCRAFT_IN_RANGE ==
    <<"N","o"," ","a","i","r","c","r","a","f","t"," ","i","n"," ","r","a","n","g","e">>

\* -------------------------------------------------------------------- cJSON
\* valueint, the (int) of a double in hundredths: truncation toward zero
\* (the values of the model are far from INT_MAX, where cJSON saturates)
ValueInt(d) == IF d >= 0 THEN d \div 100 ELSE -((-d) \div 100)

JNull == [type |-> "NULL", valuestring |-> <<>>, valuedouble |-> 0, valueint |-> 0]
JNumber(d) == [type |-> "Number", valuestring |-> <<>>, valuedouble |-> d, valueint |-> ValueInt(d)]
JString(s) == [type |-> "String", valuestring |-> s, valuedouble |-> 0, valueint |-> 0]
\* (cJSON's parser stores 1 in the valueint of a `true`, and 0 in the numeric
\* members of every other item that is not a number)
JTrue == [type |-> "True", valuestring |-> <<>>, valuedouble |-> 0, valueint |-> 1]

\* (variant: only the presence of the item is tested)
cJSON_IsNumber_AnyItem(item) == item.type # "NULL"
cJSON_IsNumber(item) == item.type = "Number"
\* `item && item->valuestring`
HasValueString(item) == item.type # "NULL" /\ item.type = "String"
\* `if (item)`
NonNull(item) == item.type # "NULL"

\* ------------------------------------------------------------------ geodesy
\* haversine_distance for two points on one meridian or both on the equator,
\* where a = sin^2(d/2) and c = |d| (d the angle between them, |d| <= 180
\* degrees): EARTH_RADIUS_KM * |d| * pi / 180, with pi as 355/113.
haversine_distance(lat1, lon1, lat2, lon2) ==
    LET d == CASE lon1 = lon2 -> Abs(lat2 - lat1)
               [] lat1 = 0 /\ lat2 = 0 -> Abs(lon2 - lon1)
    IN  ((EARTH_RADIUS_KM \div 100) * d * 355) \div (180 * 113)

\* calculate_bearing for the same pairs of points, in hundredths of a degree:
\* on one meridian y = 0 and x = sin(lat2 - lat1); on the equator x = 0 and
\* y = sin(lon2 - lon1); atan2(0, 0) = 0.
calculate_bearing(lat1, lon1, lat2, lon2) ==
    CASE lon1 = lon2 /\ lat2 >= lat1 -> 0
      [] lon1 = lon2 /\ lat2 < lat1 -> 18000
      [] lon1 # lon2 /\ lat1 = 0 /\ lat2 = 0 /\ lon2 > lon1 -> 9000
      [] lon1 # lon2 /\ lat1 = 0 /\ lat2 = 0 /\ lon2 < lon1 -> 27000

\* ---------------------------------------------------------- struct Aircraft
ZeroAircraft ==
    [flight |-> <<>>, hex |-> <<>>, squawk |-> <<>>, registration |-> <<>>,
     aircraft_type |-> <<>>, operator |-> <<>>,
     lat |-> 0, lon |-> 0, distance_km |-> 0,
     altitude_ft |-> 0, vert_rate_fpm |-> 0,
     ground_speed_kts |-> 0, track_deg |-> 0, bearing_deg |-> 0]

\* (variant: distance_km is not assigned and stays the zero of a global)
InitialPlane_NoDistance ==
    [ZeroAircraft EXCEPT !.flight = snprintf(SIZE_flight, WAITING_FOR_DATA),
                         !.operator = snprintf(SIZE_operator, BLANK),
                         !.registration = snprintf(SIZE_registration, BLANK),
                         !.aircraft_type = snprintf(SIZE_aircraft_type, BLANK),
                         !.hex = snprintf(SIZE_hex, BLANK),
                         !.squawk = snprintf(SIZE_squawk, BLANK),
                         !.bearing_deg = 0]

\* g_closest_plane after the assignments at the start of main(); the fields
\* main() does not assign are the zeroes of a global
InitialPlane ==
    [ZeroAircraft EXCEPT !.flight = snprintf(SIZE_flight, WAITING_FOR_DATA),
                         !.operator = snprintf(SIZE_operator, BLANK),
                         !.registration = snprintf(SIZE_registration, BLANK),
                         !.aircraft_type = snprintf(SIZE_aircraft_type, BLANK),
                         !.hex = snprintf(SIZE_hex, BLANK),
                         !.squawk = snprintf(SIZE_squawk, BLANK),
                         !.distance_km = DISTANCE_SENTINEL,
                         !.bearing_deg = 0]

\* struct Aircraft local_closest = { .distance_km = 999999.9 };
InitialLocalClosest == [ZeroAircraft EXCEPT !.distance_km = DISTANCE_SENTINEL]

\* --------------------------------------------------------- the two servers
\* One element of the feed's `aircraft` array: the items
\* cJSON_GetObjectItemCaseSensitive finds for the nine names the cycle reads.
Entry(lat, lon, hex, flight, squawk, alt_baro, gs, track, baro_rate) ==
    [lat |-> lat, lon |-> lon, hex |-> hex, flight |-> flight, squawk |-> squawk,
     alt_baro |-> alt_baro, gs |-> gs, track |-> track, baro_rate |-> baro_rate]

\* 50 km north of the observer, every field present
Far ==
    Entry(JNumber(45), JNumber(0), JString(<<"a", "1">>), JString(<<"F", "1">>),
          JString(<<"7", "0", "0", "0">>), JNumber(3500000), JNumber(45050),
          JNumber(9000), JNumber(-6400))
\* 3.3 km east, on the ground, the optional fields missing or of another type
NearEast ==
    Entry(JNumber(0), JNumber(3), JString(<<"b", "2">>), JNull, JNull,
          JString(<<"g", "r", "o", "u", "n", "d">>), JNull, JNumber(34875), JTrue)
\* 3.3 km south: the same distance as NearEast
NearSouth ==
    Entry(JNumber(-3), JNumber(0), JString(<<"c", "3">>), JString(<<"F", "3">>),
          JString(<<"1", "2", "3", "4", "5", "6">>), JNumber(120050), JNumber(10000),
          JNull, JNumber(6400))
\* 1.1 km away by its lon, but without lat
NoLat ==
    Entry(JNull, JNumber(1), JString(<<"d", "4">>), JString(<<"F", "4">>), JNull,
          JNumber(100000), JNumber(5000), JNumber(0), JNumber(0))
\* lon is not a number
BadLon ==
    Entry(JNumber(1), JTrue, JNumber(5), JNull, JNull, JNull, JNull, JNull, JNull)

Entries == {Far, NearEast, NearSouth, NoLat}

\* the aircraft arrays: each aircraft at most once, at most MaxAircraft of them,
\* and three arrays with the entry whose lon is not a number
RECURSIVE ArraysOfLen(_)
ArraysOfLen(n) ==
    IF n = 0 THEN {<<>>}
    ELSE {Append(s, e) : s \in ArraysOfLen(n - 1), e \in Entries}

Distinct(s) == \A i, j \in DOMAIN s : i # j => s[i] # s[j]

AircraftArrays ==
    {s \in UNION {ArraysOfLen(n) : n \in 0..MaxAircraft} : Distinct(s)}
    \cup {<<BadLon>>, <<NoLat, BadLon>>, <<BadLon, Far>>}


\* A response as the cycle sees it: the CURLcode of curl_easy_perform, and the
\* body WriteMemoryCallback collected: its size, whether cJSON_Parse accepts
\* it, and the one item of the root the cycle looks up (`aircraft` for the
\* feed, `ac` for the lookup).  An array item carries its elements.
JArray(elems) == [type |-> "Array", elems |-> elems]
JNoItem == [type |-> "NULL", elems |-> <<>>]
JNotArray == [type |-> "Object", elems |-> <<>>]

\* The status line of the answer (0: none received) is part of what the
\* server sends; no option of the handle makes curl_easy_perform look at it.
HttpResponse(status, res, size, parses, item) ==
    [status |-> status, res |-> res, size |-> size, parses |-> parses,
     item |-> item]
Response(res, size, parses, item) ==
    HttpResponse(IF res = "CURLE_OK" THEN 200 ELSE 0, res, size, parses, item)

NoResponse == Response("NONE", 0, FALSE, JNoItem)

FeedResponses ==
    {Response("CURLE_OPERATION_TIMEDOUT", 0, FALSE, JNoItem),
     Response("CURLE_PARTIAL_FILE", 1, TRUE, JArray(<<NearEast>>)),
     Response("CURLE_OK", 0, FALSE, JNoItem),
     Response("CURLE_OK", 1, FALSE, JNoItem),
     Response("CURLE_OK", 1, TRUE, JNoItem),
     Response("CURLE_OK", 1, TRUE, JNotArray),
     HttpResponse(503, "CURLE_OK", 1, TRUE, JArray(<<Far>>))}
    \cup {Response("CURLE_OK", 1, TRUE, JArray(s)) : s \in AircraftArrays}

\* One element of the lookup's `ac` array: the items found for r, t, ownOp.
AcInfo(r, t, ownOp) == [r |-> r, t |-> t, ownOp |-> ownOp]

AcFull ==
    AcInfo(JString(<<"G", "-", "X">>), JString(<<"A", "3", "2", "0">>),
           JString(<<"O", "p">>))
AcPartial == AcInfo(JString(<<"N", "1">>), JNull, JNumber(700))

ApiResponses ==
    {Response("CURLE_OPERATION_TIMEDOUT", 0, FALSE, JNoItem),
     Response("CURLE_OK", 0, FALSE, JNoItem),
     Response("CURLE_OK", 1, FALSE, JNoItem),
     Response("CURLE_OK", 1, TRUE, JNoItem),
     Response("CURLE_OK", 1, TRUE, JNotArray),
     Response("CURLE_OK", 1, TRUE, JArray(<<>>)),
     Response("CURLE_OK", 1, TRUE, JArray(<<AcFull>>)),
     Response("CURLE_OK", 1, TRUE, JArray(<<AcPartial, AcFull>>)),
     HttpResponse(404, "CURLE_OK", 1, TRUE, JArray(<<AcFull>>))}

\* the answers of the runs that look at the schedule: a feed that fails, one
\* with a usable entry and one without; a lookup that fails and one that matches
TimingFeedResponses ==
    {Response("CURLE_OPERATION_TIMEDOUT", 0, FALSE, JNoItem),
     Response("CURLE_OK", 1, TRUE, JArray(<<NearEast>>)),
     Response("CURLE_OK", 1, TRUE, JArray(<<>>))}
TimingApiResponses ==
    {Response("CURLE_OPERATION_TIMEDOUT", 0, FALSE, JNoItem),
     Response("CURLE_OK", 1, TRUE, JArray(<<AcFull>>))}

\* (variant: the type of the item is not tested)
cJSON_IsArray_NotChecked(item) == TRUE
cJSON_IsArray(item) == item.type = "Array"

\* -------------------------------------------- fetch_and_process_data: scan
\* (variant: the CURLcode is not tested)
BodyParsed_NoResCheck(r) == r.size > 0 /\ r.parses
\* `res == CURLE_OK && chunk.size > 0`, then `if (root)`
BodyParsed(r) == r.res = "CURLE_OK" /\ r.size > 0 /\ r.parses

\* (variant: <= for <)
Closer_OrEqual(dist, held) == dist <= held
\* `dist < local_closest.distance_km`
Closer(dist, held) == dist < held

\* the body of the `if (dist < local_closest.distance_km)` block
\* (variant: a string field the entry lacks keeps what local_closest held)
TakeEntry_KeepsMissing(local, e, dist) ==
    [local EXCEPT
       !.distance_km = dist,
       !.lat = e.lat.valuedouble,
       !.lon = e.lon.valuedouble,
       !.bearing_deg = calculate_bearing(g_user_lat, g_user_lon,
                                         e.lat.valuedouble, e.lon.valuedouble),
       !.flight = IF HasValueString(e.flight)
                  THEN snprintf(SIZE_flight, e.flight.valuestring)
                  ELSE local.flight,
       !.hex = IF HasValueString(e.hex)
               THEN snprintf(SIZE_hex, e.hex.valuestring)
               ELSE local.hex,
       !.squawk = IF HasValueString(e.squawk)
                  THEN snprintf(SIZE_squawk, e.squawk.valuestring)
                  ELSE local.squawk,
       !.altitude_ft = IF NonNull(e.alt_baro) THEN e.alt_baro.valueint ELSE 0,
       !.ground_speed_kts = IF NonNull(e.gs) THEN e.gs.valuedouble ELSE 0,
       !.track_deg = IF NonNull(e.track) THEN e.track.valuedouble ELSE 0,
       !.vert_rate_fpm = IF NonNull(e.baro_rate) THEN e.baro_rate.valueint ELSE 0]

TakeEntry(local, e, dist) ==
    [local EXCEPT
       !.distance_km = dist,
       !.lat = e.lat.valuedouble,
       !.lon = e.lon.valuedouble,
       !.bearing_deg = calculate_bearing(g_user_lat, g_user_lon,
                                         e.lat.valuedouble, e.lon.valuedouble),
       !.flight = IF HasValueString(e.flight)
                  THEN snprintf(SIZE_flight, e.flight.valuestring)
                  ELSE snprintf(SIZE_flight, NA),
       !.hex = IF HasValueString(e.hex)
               THEN snprintf(SIZE_hex, e.hex.valuestring)
               ELSE snprintf(SIZE_hex, NA),
       !.squawk = IF HasValueString(e.squawk)
                  THEN snprintf(SIZE_squawk, e.squawk.valuestring)
                  ELSE snprintf(SIZE_squawk, NA),
       !.altitude_ft = IF NonNull(e.alt_baro) THEN e.alt_baro.valueint ELSE 0,
       !.ground_speed_kts = IF NonNull(e.gs) THEN e.gs.valuedouble ELSE 0,
       !.track_deg = IF NonNull(e.track) THEN e.track.valuedouble ELSE 0,
       !.vert_rate_fpm = IF NonNull(e.baro_rate) THEN e.baro_rate.valueint ELSE 0]

\* one iteration of cJSON_ArrayForEach on the pair <<local_closest, plane_found>>
ScanStep(acc, e) ==
    IF cJSON_IsNumber(e.lat) /\ cJSON_IsNumber(e.lon)
    THEN LET dist == haversine_distance(g_user_lat, g_user_lon,
                                        e.lat.valuedouble, e.lon.valuedouble)
         IN  IF Closer(dist, acc[1].distance_km)
             THEN <<TakeEntry(acc[1], e, dist), TRUE>>
             ELSE acc
    ELSE acc

\* the whole loop, from the first element on
RECURSIVE ScanFrom(_, _, _)
ScanFrom(acc, elems, i) ==
    IF i > Len(elems) THEN acc ELSE ScanFrom(ScanStep(acc, elems[i]), elems, i + 1)

Scan(elems) == ScanFrom(<<InitialLocalClosest, FALSE>>, elems, 1)

\* ------------------------------------- fetch_and_process_data: publication
\* (variant: the copy without the defaults)
ProvisionalState_NoDefaults(local) == local
\* `g_closest_plane = local_closest;` and the three "N/A" defaults after it
ProvisionalState(local) ==
    [local EXCEPT !.registration = snprintf(SIZE_registration, NA),
                  !.aircraft_type = snprintf(SIZE_aircraft_type, NA),
                  !.operator = snprintf(SIZE_operator, NA)]

\* `curl_easy_perform(...) == CURLE_OK && api_chunk.size > 0`, `if (api_root)`,
\* `cJSON_IsArray(ac_array) && cJSON_GetArraySize(ac_array) > 0`
ApiMatched(r) ==
    r.res = "CURLE_OK" /\ r.size > 0 /\ r.parses /\ cJSON_IsArray(r.item)
    /\ Len(r.item.elems) > 0

\* the i-th of the three conditional copies from ac_info = ac[0]
NumApiFields == 3
\* (variant: the type is copied from `r` as well)
WriteApiField_TypeFromR(g, ac_info, i) ==
    CASE i = 1 -> IF HasValueString(ac_info.r)
                  THEN [g EXCEPT !.registration =
                                   snprintf(SIZE_registration, ac_info.r.valuestring)]
                  ELSE g
      [] i = 2 -> IF HasValueString(ac_info.r)
                  THEN [g EXCEPT !.aircraft_type =
                                   snprintf(SIZE_aircraft_type, ac_info.r.valuestring)]
                  ELSE g
      [] i = 3 -> IF HasValueString(ac_info.ownOp)
                  THEN [g EXCEPT !.operator =
                                   snprintf(SIZE_operator, ac_info.ownOp.valuestring)]
                  ELSE g
WriteApiField(g, ac_info, i) ==
    CASE i = 1 -> IF HasValueString(ac_info.r)
                  THEN [g EXCEPT !.registration =
                                   snprintf(SIZE_registration, ac_info.r.valuestring)]
                  ELSE g
      [] i = 2 -> IF HasValueString(ac_info.t)
                  THEN [g EXCEPT !.aircraft_type =
                                   snprintf(SIZE_aircraft_type, ac_info.t.valuestring)]
                  ELSE g
      [] i = 3 -> IF HasValueString(ac_info.ownOp)
                  THEN [g EXCEPT !.operator =
                                   snprintf(SIZE_operator, ac_info.ownOp.valuestring)]
                  ELSE g

\* the i-th of the seven assignments of the "No planes detected" branch
NumResetFields == 7
\* (variant: the distance is not reset)
ResetField_KeepsDistance(g, i) ==
    CASE i = 1 -> [g EXCEPT !.flight = snprintf(SIZE_flight, NO_AIRCRAFT_IN_RANGE)]
      [] i = 2 -> [g EXCEPT !.operator = snprintf(SIZE_operator, BLANK)]
      [] i = 3 -> [g EXCEPT !.registration = snprintf(SIZE_registration, BLANK)]
      [] i = 4 -> [g EXCEPT !.aircraft_type = snprintf(SIZE_aircraft_type, BLANK)]
      [] i = 5 -> [g EXCEPT !.hex = snprintf(SIZE_hex, BLANK)]
      [] i = 6 -> [g EXCEPT !.squawk = snprintf(SIZE_squawk, BLANK)]
      [] i = 7 -> g
ResetField(g, i) ==
    CASE i = 1 -> [g EXCEPT !.flight = snprintf(SIZE_flight, NO_AIRCRAFT_IN_RANGE)]
      [] i = 2 -> [g EXCEPT !.operator = snprintf(SIZE_operator, BLANK)]
      [] i = 3 -> [g EXCEPT !.registration = snprintf(SIZE_registration, BLANK)]
      [] i = 4 -> [g EXCEPT !.aircraft_type = snprintf(SIZE_aircraft_type, BLANK)]
      [] i = 5 -> [g EXCEPT !.hex = snprintf(SIZE_hex, BLANK)]
      [] i = 6 -> [g EXCEPT !.squawk = snprintf(SIZE_squawk, BLANK)]
      [] i = 7 -> [g EXCEPT !.distance_km = DISTANCE_SENTINEL]

\* --------------------------------------------------------------- main loop
\* (variant: the interval is not converted to ms)
RefreshDue_Seconds(now, last) ==
    now - last > REFRESH_INTERVAL_SECONDS
\* `SDL_GetTicks() - last_update_time > REFRESH_INTERVAL_SECONDS * 1000`
RefreshDue(now, last) ==
    now - last > REFRESH_INTERVAL_SECONDS * 1000

\* (variant: the clock of the trigger is stored)
TimeAfterCycle_AtTrigger(started, now) == started
\* `last_update_time = SDL_GetTicks();` after the call: started is the value
\* of the clock when the cycle was triggered, now its value at the return
TimeAfterCycle(started, now) == now

\* (variant: the comparison is the other way round)
WithinAlertRadius_Beyond(g) == g.distance_km > PROXIMITY_ALERT_KM
\* `g_closest_plane.distance_km < PROXIMITY_ALERT_KM`
WithinAlertRadius(g) == g.distance_km < PROXIMITY_ALERT_KM

\* (variant: the flag is not looked at)
PlaysSound_EveryTime(near, triggered) == near
\* `if (!proximity_alert_triggered) Mix_PlayChannel(-1, g_alert_sound, 0);`
\* inside the branch of a distance within the radius
PlaysSound(near, triggered) == near /\ ~triggered

\* (variant: the URL is built before the record is copied over)
LookupKey_BeforeCopy(published, before) == before.hex
\* snprintf(api_url, ..., "https://api.adsb.lol/v2/hex/%s", g_closest_plane.hex)
\* after `g_closest_plane = local_closest`: the hex the URL ends with
LookupKey(published, before) == published.hex

\* the labels of track_to_direction
directions ==
    <<"N", "NNE", "NE", "ENE", "E", "ESE", "SE", "SSE",
      "S", "SSW", "SW", "WSW", "W", "WNW", "NW", "NNW">>
\* C's conversion (int) and operator %: the quotient is truncated toward
\* zero and the remainder has the sign of the dividend
TruncDiv(a, b) == IF a >= 0 THEN a \div b ELSE -((-a) \div b)
Remainder(a, b) == a - b * TruncDiv(a, b)
\* `int index = (int)((track_deg / 22.5) + 0.5) % 16;` for a track in 1/100
\* degree: track/22.5 + 0.5 is (track + 1125) / 2250
DirectionIndex(track_deg) == Remainder(TruncDiv(track_deg + 1125, 2250), 16)
\* `return directions[index];` reads outside the array for an index that is
\* not one of 0..15: the label drawn is then anything, or nothing at all (-1)
DirectionOutcomes(index) ==
    IF index \in 0..(Len(directions) - 1) THEN {index}
    ELSE {-1} \cup (0..(Len(directions) - 1))

\* ------------------------------------------------------------------- state
VARIABLES
    pc,                         \* where main() is
    running,                    \* bool running
    ticks,                      \* SDL_GetTicks()
    last_update_time,           \* Uint32 last_update_time
    proximity_alert_triggered,  \* bool proximity_alert_triggered
    g_closest_plane,            \* struct Aircraft g_closest_plane
    chunk,                      \* the feed response of the running cycle
    local_closest,              \* struct Aircraft local_closest
    plane_found,                \* bool plane_found
    api_chunk,                  \* the lookup response of the running cycle
    field_i,                    \* the next assignment of a field-by-field block
    quit_pending,               \* an SDL_QUIT or Escape event waits in the queue
    request_start,              \* the clock when the transfer in flight began, -1: none
    api_url,                    \* the hex that char api_url[256] ends with
    sound_played,               \* Mix_PlayChannel was called in this iteration
    direction,                  \* the index track_to_direction computed for the frame
    \* history, read by no action:
    cycle_prev,                 \* g_closest_plane when the latest cycle started
    cycle_start,                \* the clock when the latest cycle started, -1: none yet
    prev_start,                 \* the same for the cycle before it
    cycle_end,                  \* the clock when the latest cycle returned
    api_requests,               \* lookups issued by the latest cycle
    twin,                       \* the record of a second run, see StartCycle
    cycle_expect,               \* the complete record the latest cycle had to leave
    last_qualifying,            \* minimum of the latest feed with a usable entry
    last_success,               \* the record the latest cycle with a parsed feed left
    quit_blocked,               \* ms the pending quit event has waited inside a cycle
    seen_near,                  \* the latest alert step saw a distance below the radius
    last_lookup,                \* key and answer of the lookup behind the record
    last_failed,                \* the latest cycle ended without a parsed feed
    feed_requests,              \* feed requests issued by the latest cycle
    succeeded_once              \* a cycle with a parsed feed has returned

vars ==
    <<pc, running, ticks, last_update_time, proximity_alert_triggered,
      g_closest_plane, chunk, local_closest, plane_found, api_chunk, field_i,
      cycle_prev, cycle_start, prev_start, cycle_end, api_requests, twin,
      cycle_expect, last_qualifying, last_success, quit_pending,
      request_start, api_url, sound_played, direction, quit_blocked, seen_near,
      last_lookup, last_failed, feed_requests, succeeded_once>>

cycleLocals == <<chunk, local_closest, plane_found, api_chunk, field_i>>
mainLocals == <<running, last_update_time, proximity_alert_triggered>>
timing == <<cycle_start, prev_start, cycle_end>>

transfer == <<request_start, api_url>>
frame == <<sound_played, direction>>
observed ==
    <<seen_near, last_lookup, last_failed, feed_requests, succeeded_once>>

NoMinimum == [min |-> -1, at |-> {}]
NoLookup == [key |-> <<>>, registration |-> NA, aircraft_type |-> NA, operator |-> NA]

Init ==
    /\ pc = "poll"
    /\ running = TRUE
    /\ ticks = 0
    /\ last_update_time = 0
    /\ proximity_alert_triggered = FALSE
    /\ g_closest_plane = InitialPlane
    /\ chunk = NoResponse
    /\ local_closest = InitialLocalClosest
    /\ plane_found = FALSE
    /\ api_chunk = NoResponse
    /\ field_i = 0
    /\ cycle_prev = InitialPlane
    /\ cycle_start = -1
    /\ prev_start = -1
    /\ cycle_end = -1
    /\ api_requests = 0
    /\ twin = InitialPlane
    /\ cycle_expect = InitialPlane
    /\ last_qualifying = NoMinimum
    /\ last_success = InitialPlane
    /\ quit_pending = FALSE
    /\ request_start = -1
    /\ api_url = <<>>
    /\ sound_played = FALSE
    /\ direction = 0
    /\ quit_blocked = 0
    /\ seen_near = FALSE
    /\ last_lookup = NoLookup
    /\ last_failed = FALSE
    /\ feed_requests = 0
    /\ succeeded_once = FALSE

\* ---------------------------------------------- what a cycle was asked to do
\* (used by the history variables and by the properties, by no action)
Qualifies(e) == e.lat.type = "Number" /\ e.lon.type = "Number"
DistanceOf(e) ==
    haversine_distance(g_user_lat, g_user_lon, e.lat.valuedouble, e.lon.valuedouble)
QualifyingIndexes(elems) == {i \in DOMAIN elems : Qualifies(elems[i])}
MinDistance(elems) ==
    CHOOSE d \in {DistanceOf(elems[i]) : i \in QualifyingIndexes(elems)} :
        \A j \in QualifyingIndexes(elems) : d <= DistanceOf(elems[j])
MinimumOf(elems) ==
    [min |-> MinDistance(elems),
     at |-> {<<elems[i].lat.valuedouble, elems[i].lon.valuedouble>> :
                i \in {j \in QualifyingIndexes(elems) :
                          DistanceOf(elems[j]) = MinDistance(elems)}}]
\* the first element at the minimum distance
FirstNearest(elems) ==
    elems[CHOOSE i \in QualifyingIndexes(elems) :
            /\ DistanceOf(elems[i]) = MinDistance(elems)
            /\ \A j \in QualifyingIndexes(elems) :
                   DistanceOf(elems[j]) = MinDistance(elems) => i <= j]

\* the feed was fetched and parsed; a request was made and failed
FeedSucceeded(r) == r.res = "CURLE_OK" /\ r.size > 0 /\ r.parses
FeedFailed(r) == r.res # "NONE" /\ ~FeedSucceeded(r)
\* the feed was fetched and parsed and carries an aircraft array
FeedHasArray(r) == FeedSucceeded(r) /\ r.item.type = "Array"
FeedHasPlane(r) == FeedHasArray(r) /\ QualifyingIndexes(r.item.elems) # {}
FeedHasNoPlane(r) == FeedHasArray(r) /\ QualifyingIndexes(r.item.elems) = {}

\* the metadata a lookup response gives: "N/A" unless ac[0] has the string
MetadataOf(a) ==
    LET hit == a.res = "CURLE_OK" /\ a.size > 0 /\ a.parses
               /\ a.item.type = "Array" /\ a.item.elems # <<>>
        str(item, size) == IF hit /\ item.type = "String"
                           THEN snprintf(size, item.valuestring)
                           ELSE NA
        first == IF hit THEN a.item.elems[1] ELSE [r |-> JNull, t |-> JNull, ownOp |-> JNull]
    IN  [registration |-> str(first.r, SIZE_registration),
         aircraft_type |-> str(first.t, SIZE_aircraft_type),
         operator |-> str(first.ownOp, SIZE_operator)]

\* the record a cycle that found a plane has to leave
FoundRecord(feed, api) ==
    LET e == FirstNearest(feed.item.elems)
        m == MetadataOf(api)
    IN  [TakeEntry(ZeroAircraft, e, DistanceOf(e)) EXCEPT
           !.registration = m.registration,
           !.aircraft_type = m.aircraft_type,
           !.operator = m.operator]

\* the "no aircraft found" record: the placeholders and the sentinel distance,
\* the other fields as they were
NoPlaneRecord(prev) ==
    [prev EXCEPT !.flight = NO_AIRCRAFT_IN_RANGE, !.operator = BLANK,
                 !.registration = BLANK, !.aircraft_type = BLANK,
                 !.hex = BLANK, !.squawk = BLANK,
                 !.distance_km = DISTANCE_SENTINEL]

CompleteRecord(prev, feed, api) ==
    IF FeedHasPlane(feed) THEN FoundRecord(feed, api)
    ELSE IF FeedHasNoPlane(feed) THEN NoPlaneRecord(prev)
    ELSE prev

\* ----------------------------------------------------------------- actions
\* main() is inside fetch_and_process_data(); one of its transfers is running
InCycle ==
    pc \in {"fetch", "feed_perform", "publish", "api_perform", "api_fields",
            "reset", "cleanup"}
RequestInFlight == pc \in {"feed_perform", "api_perform"}

\* the user closes the window or presses Escape: SDL queues the event
QuitEvent ==
    /\ pc # "done"
    /\ running
    /\ ~quit_pending
    /\ quit_pending' = TRUE
    /\ quit_blocked' = 0
    /\ UNCHANGED <<pc, ticks, mainLocals, g_closest_plane, cycleLocals, cycle_prev,
                   timing, api_requests, twin, cycle_expect, last_qualifying,
                   last_success, transfer, frame, observed>>

\* while (SDL_PollEvent(&event) != 0): the queue is emptied, and a quit event
\* found in it clears running
PollEvents ==
    /\ pc = "poll"
    /\ running' = IF quit_pending THEN FALSE ELSE running
    /\ quit_pending' = FALSE
    /\ pc' = "timer"
    /\ UNCHANGED <<ticks, last_update_time, proximity_alert_triggered,
                   g_closest_plane, cycleLocals, cycle_prev, timing, api_requests,
                   twin, cycle_expect, last_qualifying, last_success,
                   quit_blocked, transfer, frame, observed>>

\* the timer test holds: fetch_and_process_data() is called.  The second run
\* (twin) enters the same cycle with the record of a run in which no cycle
\* has succeeded yet.
StartCycle ==
    /\ pc = "timer"
    /\ RefreshDue(ticks, last_update_time)
    /\ pc' = "fetch"
    /\ cycle_prev' = g_closest_plane
    /\ prev_start' = cycle_start
    /\ cycle_start' = ticks
    /\ api_requests' = 0
    /\ feed_requests' = 0
    /\ twin' = InitialPlane
    /\ UNCHANGED <<ticks, mainLocals, g_closest_plane, cycleLocals, cycle_end,
                   cycle_expect, last_qualifying, last_success, quit_pending,
                   quit_blocked, transfer, frame, seen_near, last_lookup,
                   last_failed, succeeded_once>>

\* the timer test fails
SkipCycle ==
    /\ pc = "timer"
    /\ ~RefreshDue(ticks, last_update_time)
    /\ pc' = "alert"
    /\ UNCHANGED <<ticks, mainLocals, g_closest_plane, cycleLocals, cycle_prev,
                   timing, api_requests, twin, cycle_expect, last_qualifying,
                   last_success, quit_pending, quit_blocked, transfer, frame,
                   observed>>

\* curl_easy_init() and malloc(1): either may return NULL, and the function
\* returns; otherwise the options are set and curl_easy_perform is entered
FetchInit ==
    /\ pc = "fetch"
    /\ \E got \in {"ok", "no_handle", "no_memory"} :
          /\ pc' = IF got = "ok" THEN "feed_perform" ELSE "cleanup"
          /\ request_start' = IF got = "ok" THEN ticks ELSE -1
          /\ feed_requests' = IF got = "ok" THEN feed_requests + 1 ELSE feed_requests
    /\ UNCHANGED <<ticks, mainLocals, g_closest_plane, cycleLocals, cycle_prev,
                   timing, api_requests, twin, cycle_expect, last_qualifying,
                   last_success, quit_pending, quit_blocked, api_url, frame,
                   seen_near, last_lookup, last_failed, succeeded_once>>

\* curl_easy_perform returns for the feed with one of the given answers; the
\* body is parsed and scanned
FeedPerformWith(answers) ==
    /\ pc = "feed_perform"
    /\ \E r \in answers :
          /\ chunk' = r
          /\ IF BodyParsed(r) /\ cJSON_IsArray(r.item)
             THEN LET found == Scan(r.item.elems)
                  IN  /\ local_closest' = found[1]
                      /\ plane_found' = found[2]
                      /\ pc' = IF found[2] THEN "publish" ELSE "reset"
                      /\ field_i' = IF found[2] THEN 0 ELSE 1
             ELSE /\ pc' = "cleanup"
                  /\ UNCHANGED <<local_closest, plane_found, field_i>>
    /\ request_start' = -1
    /\ UNCHANGED <<ticks, mainLocals, g_closest_plane, api_chunk, cycle_prev,
                   timing, api_requests, twin, cycle_expect, last_qualifying,
                   last_success, quit_pending, quit_blocked, api_url, frame,
                   observed>>

FeedPerform == FeedPerformWith(FeedResponses)

\* the basic data is copied over with the "N/A" defaults and the URL of the
\* lookup is built; malloc(1) for the lookup's buffer; with a buffer the
\* lookup is issued on the handle of the feed request
NotPerformed == Response("NOT_PERFORMED", 0, FALSE, JNoItem)

Publish ==
    /\ pc = "publish"
    /\ g_closest_plane' = ProvisionalState(local_closest)
    /\ twin' = ProvisionalState(local_closest)
    /\ api_url' = LookupKey(ProvisionalState(local_closest), g_closest_plane)
    /\ \E memory \in BOOLEAN :
          IF memory
          THEN /\ pc' = "api_perform"
               /\ api_requests' = api_requests + 1
               /\ request_start' = ticks
               /\ UNCHANGED api_chunk
          ELSE /\ pc' = "cleanup"
               /\ api_chunk' = NotPerformed
               /\ UNCHANGED <<api_requests, request_start>>
    /\ UNCHANGED <<ticks, mainLocals, chunk, local_closest, plane_found, field_i,
                   cycle_prev, timing, cycle_expect, last_qualifying, last_success,
                   quit_pending, quit_blocked, frame, observed>>

\* curl_easy_perform returns for the lookup with one of the given answers
ApiPerformWith(answers) ==
    /\ pc = "api_perform"
    /\ \E r \in answers :
          /\ api_chunk' = r
          /\ pc' = IF ApiMatched(r) THEN "api_fields" ELSE "cleanup"
          /\ field_i' = IF ApiMatched(r) THEN 1 ELSE 0
    /\ request_start' = -1
    /\ UNCHANGED <<ticks, mainLocals, g_closest_plane, chunk, local_closest,
                   plane_found, cycle_prev, timing, api_requests, twin,
                   cycle_expect, last_qualifying, last_success, quit_pending,
                   quit_blocked, api_url, frame, observed>>

ApiPerform == ApiPerformWith(ApiResponses)

\* (variant: the function returns after the first assignment of a block)
AfterField_ReturnsEarly(i, n) == "cleanup"
\* after the last assignment of a block the function frees and returns
AfterField(i, n) == IF i < n THEN "same" ELSE "cleanup"

\* one of the three copies of registration, type, operator
ApiField ==
    /\ pc = "api_fields"
    /\ g_closest_plane' = WriteApiField(g_closest_plane, api_chunk.item.elems[1], field_i)
    /\ twin' = WriteApiField(twin, api_chunk.item.elems[1], field_i)
    /\ pc' = IF AfterField(field_i, NumApiFields) = "same" THEN pc ELSE "cleanup"
    /\ field_i' = IF AfterField(field_i, NumApiFields) = "same" THEN field_i + 1 ELSE 0
    /\ UNCHANGED <<ticks, mainLocals, chunk, local_closest, plane_found, api_chunk,
                   cycle_prev, timing, api_requests, cycle_expect, last_qualifying,
                   last_success, quit_pending, quit_blocked, transfer, frame,
                   observed>>

\* one of the seven assignments that reset the record
ResetStep ==
    /\ pc = "reset"
    /\ g_closest_plane' = ResetField(g_closest_plane, field_i)
    /\ twin' = ResetField(twin, field_i)
    /\ pc' = IF AfterField(field_i, NumResetFields) = "same" THEN pc ELSE "cleanup"
    /\ field_i' = IF AfterField(field_i, NumResetFields) = "same" THEN field_i + 1 ELSE 0
    /\ UNCHANGED <<ticks, mainLocals, chunk, local_closest, plane_found, api_chunk,
                   cycle_prev, timing, api_requests, cycle_expect, last_qualifying,
                   last_success, quit_pending, quit_blocked, transfer, frame,
                   observed>>

\* free, curl_easy_cleanup, return; main() stores the clock
Return ==
    /\ pc = "cleanup"
    /\ last_update_time' = TimeAfterCycle(cycle_start, ticks)
    /\ pc' = "alert"
    /\ chunk' = NoResponse
    /\ api_chunk' = NoResponse
    /\ local_closest' = InitialLocalClosest
    /\ plane_found' = FALSE
    /\ field_i' = 0
    /\ api_url' = <<>>
    /\ cycle_expect' = CompleteRecord(cycle_prev, chunk, api_chunk)
    /\ last_qualifying' = IF FeedHasPlane(chunk) THEN MinimumOf(chunk.item.elems)
                          ELSE last_qualifying
    /\ last_success' = IF FeedSucceeded(chunk) THEN g_closest_plane ELSE last_success
    /\ cycle_end' = ticks
    /\ last_lookup' = IF FeedHasPlane(chunk)
                      THEN [key |-> api_url,
                            registration |-> MetadataOf(api_chunk).registration,
                            aircraft_type |-> MetadataOf(api_chunk).aircraft_type,
                            operator |-> MetadataOf(api_chunk).operator]
                      ELSE IF FeedHasNoPlane(chunk) THEN NoLookup ELSE last_lookup
    /\ last_failed' = ~FeedSucceeded(chunk)
    /\ succeeded_once' = (succeeded_once \/ FeedSucceeded(chunk))
    /\ UNCHANGED <<ticks, running, proximity_alert_triggered, g_closest_plane,
                   cycle_prev, cycle_start, prev_start, api_requests, twin,
                   quit_pending, quit_blocked, request_start, frame, seen_near,
                   feed_requests>>

\* the proximity alert logic
Alert ==
    /\ pc = "alert"
    /\ sound_played' = PlaysSound(WithinAlertRadius(g_closest_plane),
                                  proximity_alert_triggered)
    /\ proximity_alert_triggered' = WithinAlertRadius(g_closest_plane)
    /\ seen_near' = (g_closest_plane.distance_km < PROXIMITY_ALERT_KM)
    /\ pc' = "render"
    /\ UNCHANGED <<ticks, running, last_update_time, g_closest_plane, cycleLocals,
                   cycle_prev, timing, api_requests, twin, cycle_expect,
                   last_qualifying, last_success, quit_pending, quit_blocked,
                   transfer, direction, last_lookup, last_failed, feed_requests,
                   succeeded_once>>

\* the frame is drawn from g_closest_plane, the heading through
\* track_to_direction; then `while (running)`
Render ==
    /\ pc = "render"
    /\ direction' \in DirectionOutcomes(DirectionIndex(g_closest_plane.track_deg))
    /\ sound_played' = FALSE
    /\ pc' = IF running THEN "poll" ELSE "done"
    /\ UNCHANGED <<ticks, mainLocals, g_closest_plane, cycleLocals, cycle_prev,
                   timing, api_requests, twin, cycle_expect, last_qualifying,
                   last_success, quit_pending, quit_blocked, transfer, observed>>

\* (variant: the option holds for the transfer it was set before only)
TimeoutInForce_FeedOnly(at) ==
    IF at = "feed_perform" THEN CURLOPT_TIMEOUT ELSE 0
\* the CURLOPT_TIMEOUT (seconds, 0: none) of the handle during the transfer
\* main() is at: the
\* option set before the feed request stays on the handle, which the lookup
\* reuses with a new URL and a new write buffer
TimeoutInForce(at) == CURLOPT_TIMEOUT

\* time passes while main() is between two calls of fetch_and_process_data
\* or waits in curl_easy_perform, where the transfer is given up when
\* CURLOPT_TIMEOUT seconds have passed; the other statements of the cycle
\* take no time at the scale of the clock.  The clock makes at most the given
\* number of steps.
TickUpTo(quanta) ==
    /\ pc # "done"
    /\ InCycle => RequestInFlight
    /\ (RequestInFlight /\ TimeoutInForce(pc) > 0) =>
          ticks + TickMs - request_start <= TimeoutInForce(pc) * 1000
    /\ ticks + TickMs <= TickMs * quanta
    /\ ticks' = ticks + TickMs
    /\ quit_blocked' = IF quit_pending /\ InCycle THEN quit_blocked + TickMs
                       ELSE quit_blocked
    /\ UNCHANGED <<pc, mainLocals, g_closest_plane, cycleLocals, cycle_prev,
                   timing, api_requests, twin, cycle_expect, last_qualifying,
                   last_success, quit_pending, transfer, frame, observed>>

Tick == TickUpTo(MaxQuanta)

Next ==
    \/ QuitEvent
    \/ PollEvents
    \/ StartCycle
    \/ SkipCycle
    \/ FetchInit
    \/ FeedPerform
    \/ Publish
    \/ ApiPerform
    \/ ApiField
    \/ ResetStep
    \/ Return
    \/ Alert
    \/ Render
    \/ Tick

Spec == Init /\ [][Next]_vars

\* ------------------------------------------------- the runs for the schedule
\* the same program, with the short catalogue of answers and a longer clock
FeedPerformTiming == FeedPerformWith(TimingFeedResponses)
ApiPerformTiming == ApiPerformWith(TimingApiResponses)
TickTiming == TickUpTo(MaxTimingQuanta)

NextTiming ==
    \/ QuitEvent
    \/ PollEvents
    \/ StartCycle
    \/ SkipCycle
    \/ FetchInit
    \/ FeedPerformTiming
    \/ Publish
    \/ ApiPerformTiming
    \/ ApiField
    \/ ResetStep
    \/ Return
    \/ Alert
    \/ Render
    \/ TickTiming

SpecTiming == Init /\ [][NextTiming]_vars

\* ------------------------------------------- track_to_direction on its own
\* the values `track` of the feed can have: any number, here in 1/100 degree
TrackValues == {1125 * k : k \in (-MaxHeadingSteps)..MaxHeadingSteps}

\* the record of a first cycle that selected Far, its `track` being t, and
\* whose lookup found nothing
HeadingRecord(t) ==
    ProvisionalState(TakeEntry(InitialLocalClosest,
                               [Far EXCEPT !.track = JNumber(t)], DistanceOf(Far)))

\* main() is about to draw the first frame after that cycle
InitHeading ==
    \E t \in TrackValues :
        /\ pc = "render"
        /\ running = TRUE
        /\ ticks = 2 * TickMs
        /\ last_update_time = 2 * TickMs
        /\ proximity_alert_triggered = FALSE
        /\ g_closest_plane = HeadingRecord(t)
        /\ chunk = NoResponse
        /\ local_closest = InitialLocalClosest
        /\ plane_found = FALSE
        /\ api_chunk = NoResponse
        /\ field_i = 0
        /\ cycle_prev = InitialPlane
        /\ cycle_start = 2 * TickMs
        /\ prev_start = -1
        /\ cycle_end = 2 * TickMs
        /\ api_requests = 1
        /\ twin = HeadingRecord(t)
        /\ cycle_expect = HeadingRecord(t)
        /\ last_qualifying = MinimumOf(<<Far>>)
        /\ last_success = HeadingRecord(t)
        /\ quit_pending = FALSE
        /\ request_start = -1
        /\ api_url = <<>>
        /\ sound_played = FALSE
        /\ direction = 0
        /\ quit_blocked = 0
        /\ seen_near = FALSE
        /\ last_lookup = [NoLookup EXCEPT !.key = Far.hex.valuestring]
        /\ last_failed = FALSE
        /\ feed_requests = 1
        /\ succeeded_once = TRUE

SpecHeading == InitHeading /\ [][Render]_vars

\* -------------------------------------------------------------- properties
\* fetch_and_process_data has made all its writes and is about to return
AtReturn == pc = "cleanup"
BetweenCycles == ~InCycle

TelemetryFields ==
    {"hex", "flight", "squawk", "lat", "lon", "altitude_ft", "ground_speed_kts",
     "track_deg", "vert_rate_fpm", "distance_km", "bearing_deg"}
SameTelemetry(a, b) == \A f \in TelemetryFields : a[f] = b[f]
SelectedTelemetry(feed) ==
    LET e == FirstNearest(feed.item.elems) IN TakeEntry(ZeroAircraft, e, DistanceOf(e))
LookupFailed(a) ==
    ~(a.res = "CURLE_OK" /\ a.size > 0 /\ a.parses /\ a.item.type = "Array"
      /\ a.item.elems # <<>>)

\* C1: a cycle whose feed request fails (transport error or timeout, empty
\* body, body that does not parse) leaves every field of g_closest_plane as it
\* was and issues no lookup; hence between cycles the record is the one the
\* latest cycle with a parsed feed left.
C1_FailedCycleKeepsRecord ==
    /\ (AtReturn /\ FeedFailed(chunk)) =>
          g_closest_plane = cycle_prev /\ api_requests = 0
    /\ BetweenCycles => g_closest_plane = last_success

C1_Witness ==
    /\ AtReturn
    /\ chunk.res = "CURLE_OPERATION_TIMEDOUT"
    /\ cycle_prev.distance_km # DISTANCE_SENTINEL
    /\ last_success = cycle_prev

\* C2: between cycles, a published distance other than the sentinel is the
\* minimum distance over the entries with numeric lat and lon of the latest
\* parsed feed that had such an entry, and the published lat/lon are those of
\* an entry at that minimum.
C2_DistanceIsMinimum ==
    (BetweenCycles /\ g_closest_plane.distance_km # DISTANCE_SENTINEL) =>
        /\ g_closest_plane.distance_km = last_qualifying.min
        /\ <<g_closest_plane.lat, g_closest_plane.lon>> \in last_qualifying.at

C2_Witness ==
    /\ pc = "render"
    /\ g_closest_plane.distance_km # DISTANCE_SENTINEL
    /\ g_closest_plane.distance_km = last_qualifying.min
    /\ Cardinality(last_qualifying.at) = 2
    /\ prev_start >= 0

\* C3: of several entries at the minimum distance the first in the array is
\* the one whose data is published.
C3_FirstOfEqualsWins ==
    (AtReturn /\ FeedHasPlane(chunk)) =>
        SameTelemetry(g_closest_plane, SelectedTelemetry(chunk))

C3_Witness ==
    /\ AtReturn
    /\ chunk.item.type = "Array"
    /\ chunk.item.elems = <<Far, NearEast, NearSouth>>
    /\ g_closest_plane.hex = NearEast.hex.valuestring
    /\ g_closest_plane.lon = NearEast.lon.valuedouble

\* C4: a parsed feed whose aircraft array has no entry with numeric lat and
\* lon ends with the "no aircraft found" record (placeholders, distance at
\* the sentinel) and without a lookup.
C4_NoPlaneState ==
    (AtReturn /\ FeedHasNoPlane(chunk)) =>
        /\ g_closest_plane.flight = NO_AIRCRAFT_IN_RANGE
        /\ g_closest_plane.distance_km = DISTANCE_SENTINEL
        /\ g_closest_plane.hex = BLANK /\ g_closest_plane.squawk = BLANK
        /\ g_closest_plane.registration = BLANK
        /\ g_closest_plane.aircraft_type = BLANK
        /\ g_closest_plane.operator = BLANK
        /\ api_requests = 0

C4_Witness ==
    /\ AtReturn
    /\ FeedHasNoPlane(chunk)
    /\ chunk.item.elems # <<>>
    /\ cycle_prev.distance_km # DISTANCE_SENTINEL

\* C5: when an entry qualifies and the lookup yields no match in any way (no
\* buffer, transport error, empty body, unparsable body, `ac` absent, not an
\* array or empty), the record has the selected entry's telemetry and "N/A"
\* as registration, aircraft_type and operator.
C5_LookupFailureKeepsTelemetry ==
    (AtReturn /\ FeedHasPlane(chunk) /\ LookupFailed(api_chunk)) =>
        /\ SameTelemetry(g_closest_plane, SelectedTelemetry(chunk))
        /\ g_closest_plane.registration = NA
        /\ g_closest_plane.aircraft_type = NA
        /\ g_closest_plane.operator = NA

C5_Witness ==
    /\ AtReturn
    /\ FeedHasPlane(chunk)
    /\ api_chunk.res = "CURLE_OPERATION_TIMEDOUT"
    /\ cycle_prev.registration \notin {NA, BLANK}
    /\ g_closest_plane.hex # cycle_prev.hex

C7_SameCycleSameRecord ==
    (AtReturn /\ FeedHasArray(chunk)) => g_closest_plane = twin

\* C8: what the alert check and the render step read is the record the
\* latest cycle found or the complete record it had to leave.
C8_ReadersSeeCompleteRecords ==
    pc \in {"alert", "render"} => g_closest_plane \in {cycle_prev, cycle_expect}

C8_Witness ==
    /\ pc = "render"
    /\ g_closest_plane = cycle_expect
    /\ g_closest_plane # cycle_prev
    /\ g_closest_plane.registration \notin {NA, BLANK}
    /\ g_closest_plane.aircraft_type = NA

\* C9: while a request is in flight, a step of the presentation path (event
\* polling, alert check, render) can be taken.
C9_PresentationNotBlocked ==
    RequestInFlight => ENABLED (PollEvents \/ Alert \/ Render)

\* C10 as stated: after a cycle that took less than the interval, the timer
\* test that finds more than the interval elapsed since that cycle started
\* triggers the next cycle.
C10_Original ==
    [][(/\ pc = "timer"
        /\ cycle_start >= 0
        /\ cycle_end - cycle_start < REFRESH_INTERVAL_SECONDS * 1000
        /\ ticks - cycle_start > REFRESH_INTERVAL_SECONDS * 1000)
       => pc' # "alert"]_vars

\* C10 as amended: a cycle starts more than the interval after the previous
\* cycle returned, so more than interval + d after the previous one started.
C10_IntervalFromReturn ==
    (InCycle /\ prev_start >= 0) =>
        /\ cycle_start - cycle_end > REFRESH_INTERVAL_SECONDS * 1000
        /\ cycle_end >= prev_start

C10_Witness ==
    /\ InCycle
    /\ prev_start >= 0
    /\ cycle_end - prev_start > 0
    /\ cycle_end - prev_start < REFRESH_INTERVAL_SECONDS * 1000

\* C11: after the alert step of an iteration, proximity_alert_triggered is
\* true exactly when the published distance is below PROXIMITY_ALERT_KM; it
\* is false for a record whose distance is the sentinel (the initial record
\* and the "no aircraft" record).
C11_AlertFlagMatchesDistance ==
    pc = "render" =>
        /\ proximity_alert_triggered
              <=> g_closest_plane.distance_km < PROXIMITY_ALERT_KM
        /\ g_closest_plane.distance_km = DISTANCE_SENTINEL
              => ~proximity_alert_triggered

C11_Witness ==
    /\ pc = "render"
    /\ ~proximity_alert_triggered
    /\ g_closest_plane.flight = NO_AIRCRAFT_IN_RANGE
    /\ g_closest_plane.distance_km = DISTANCE_SENTINEL
    /\ cycle_prev.distance_km < PROXIMITY_ALERT_KM

\* the server answered with a status of the 4xx or 5xx class
HttpError(r) == r.status >= 400

\* C12: an answer with a non-success HTTP status counts as a failed request
\* whatever its body: for the feed the record stays as it was and no lookup is
\* issued; for the lookup registration, aircraft_type and operator stay "N/A".
C12_HttpErrorIsFailure ==
    AtReturn =>
        /\ HttpError(chunk) => (g_closest_plane = cycle_prev /\ api_requests = 0)
        /\ (FeedHasPlane(chunk) /\ HttpError(api_chunk)) =>
              /\ g_closest_plane.registration = NA
              /\ g_closest_plane.aircraft_type = NA
              /\ g_closest_plane.operator = NA

\* C13: for the selected entry, hex, flight and squawk are published as the
\* feed's string and as "N/A" when missing or not a string; alt_baro, gs,
\* track and baro_rate as the feed's number and as 0 when missing or not a
\* number.
C13_FieldsAsInFeed ==
    (AtReturn /\ FeedHasPlane(chunk)) =>
        LET e == FirstNearest(chunk.item.elems)
            g == g_closest_plane
            text(item) == IF item.type = "String" THEN item.valuestring ELSE NA
            number(item) == IF item.type = "Number" THEN item.valuedouble ELSE 0
        IN  /\ g.hex = text(e.hex)
            /\ g.flight = text(e.flight)
            /\ g.squawk = text(e.squawk)
            /\ g.altitude_ft * 100 = number(e.alt_baro)
            /\ g.ground_speed_kts = number(e.gs)
            /\ g.track_deg = number(e.track)
            /\ g.vert_rate_fpm * 100 = number(e.baro_rate)

\* C14: a pending quit event is kept waiting by a refresh cycle, the cycle
\* with both requests included, for no longer than one request timeout.
C14_QuitWaitsOneTimeout ==
    quit_blocked <= CURLOPT_TIMEOUT * 1000

\* C15: for the default 0 and for every numeric `track` of the feed, the index
\* track_to_direction computes is one of 0..15, so that the frame shows one of
\* the 16 labels; for a track from 348.75 up to 360 the label is "N".
C15_LabelIsCompassPoint ==
    /\ direction \in 0..(Len(directions) - 1)
    /\ (pc = "poll" /\ g_closest_plane.track_deg \in 34875..36000) =>
          directions[direction + 1] = "N"

\* what a record shows of one item of an entry: the string cut to the
\* capacity of its field, the number, or the default
ShownText(item, capacity) ==
    IF item.type = "String"
    THEN [i \in 1..Min(Len(item.valuestring), capacity) |-> item.valuestring[i]]
    ELSE NA
ShownInt(item) == IF item.type = "NULL" THEN 0 ELSE item.valueint
ShownReal(item) == IF item.type = "NULL" THEN 0 ELSE item.valuedouble

\* C16: after a cycle that selected an aircraft, lat, lon, distance and every
\* telemetry field of the record come from one and the same entry of the
\* feed, whatever minima were held before it during the scan, and the bearing
\* is the bearing to the published lat/lon.
C16_OneEntryBehindRecord ==
    (AtReturn /\ FeedHasPlane(chunk)) =>
        LET g == g_closest_plane
            elems == chunk.item.elems
        IN  /\ \E i \in QualifyingIndexes(elems) :
                  /\ g.lat = elems[i].lat.valuedouble
                  /\ g.lon = elems[i].lon.valuedouble
                  /\ g.distance_km = DistanceOf(elems[i])
                  /\ g.hex = ShownText(elems[i].hex, 9)
                  /\ g.flight = ShownText(elems[i].flight, 23)
                  /\ g.squawk = ShownText(elems[i].squawk, 5)
                  /\ g.altitude_ft = ShownInt(elems[i].alt_baro)
                  /\ g.ground_speed_kts = ShownReal(elems[i].gs)
                  /\ g.track_deg = ShownReal(elems[i].track)
                  /\ g.vert_rate_fpm = ShownInt(elems[i].baro_rate)
            /\ g.bearing_deg =
                  calculate_bearing(g_user_lat, g_user_lon, g.lat, g.lon)

C16_Witness ==
    /\ AtReturn
    /\ FeedHasPlane(chunk)
    /\ Len(chunk.item.elems) >= 2
    /\ chunk.item.elems[1] = Far
    /\ g_closest_plane.hex = NearEast.hex.valuestring
    /\ g_closest_plane.flight = NA
    /\ g_closest_plane.ground_speed_kts = 0

\* C17: a cycle issues at most one lookup; none before the feed is fetched,
\* parsed and scanned to its end, none unless an entry qualified, and the
\* lookup is keyed by the hex of the entry selected in the end.
C17_OneLookupForSelected ==
    /\ api_requests <= 1
    /\ pc \in {"fetch", "feed_perform", "publish", "reset"} => api_requests = 0
    /\ (InCycle /\ api_requests = 1) =>
          /\ FeedHasPlane(chunk)
          /\ api_url = ShownText(FirstNearest(chunk.item.elems).hex, 9)

C17_Witness ==
    /\ pc = "api_perform"
    /\ api_requests = 1
    /\ Len(chunk.item.elems) >= 2
    /\ chunk.item.elems[1] = Far
    /\ api_url = NearEast.hex.valuestring
    /\ cycle_prev.hex = Far.hex.valuestring

MetadataFields == {"registration", "aircraft_type", "operator"}

\* C18: a published registration, aircraft_type or operator is a placeholder
\* ("N/A" or " ") or the value the lookup returned that was keyed by the
\* published hex, in the cycle that published this hex; metadata of an
\* earlier aircraft never stands next to another aircraft's telemetry, also
\* when the new lookup fails.
C18_MetadataBelongsToHex ==
    \A f \in MetadataFields :
        /\ BetweenCycles =>
              \/ g_closest_plane[f] \in {NA, BLANK}
              \/ /\ last_lookup.key = g_closest_plane.hex
                 /\ g_closest_plane[f] = last_lookup[f]
        /\ (AtReturn /\ FeedHasPlane(chunk)) =>
              \/ g_closest_plane[f] = NA
              \/ /\ api_url = g_closest_plane.hex
                 /\ g_closest_plane[f] = MetadataOf(api_chunk)[f]

C18_Witness ==
    /\ pc = "render"
    /\ cycle_prev.hex = Far.hex.valuestring
    /\ cycle_prev.operator = AcFull.ownOp.valuestring
    /\ g_closest_plane.hex = NearEast.hex.valuestring
    /\ g_closest_plane.registration = AcPartial.r.valuestring
    /\ g_closest_plane.operator = NA
    /\ last_lookup.key = NearEast.hex.valuestring

\* C19: the alert step plays the sound exactly when it sees a distance below
\* PROXIMITY_ALERT_KM and the alert step before it (if any) did not: once per
\* entry into the radius, not again while the distance stays below it (failed
\* cycles that keep the record included), and again only after an iteration
\* has seen a distance not below it.  No other step plays it.
C19_SoundOncePerEntry ==
    [][/\ (pc = "alert" /\ pc' = "render") =>
             (sound_played' <=>
                 (g_closest_plane.distance_km < PROXIMITY_ALERT_KM /\ ~seen_near))
       /\ pc # "alert" => (sound_played' => sound_played)]_vars

C19_Witness ==
    /\ pc = "render"
    /\ ~sound_played
    /\ seen_near
    /\ g_closest_plane.distance_km < PROXIMITY_ALERT_KM
    /\ last_failed
    /\ cycle_end = ticks
    /\ cycle_prev = g_closest_plane

\* C20: a cycle makes one feed request and does not repeat it; after a cycle
\* without a parsed feed the timer test still starts the next cycle exactly
\* when more than the interval has passed since that cycle returned; and a
\* cycle with a qualifying entry that follows a failed one publishes its own
\* nearest entry.
C20_FailureKeepsSchedule ==
    [][/\ feed_requests' <= 1
       /\ (pc = "timer" /\ last_failed /\ cycle_start >= 0) =>
             /\ ticks - cycle_end > REFRESH_INTERVAL_SECONDS * 1000
                   => pc' # "alert"
             /\ ticks - cycle_end <= REFRESH_INTERVAL_SECONDS * 1000
                   => pc' # "fetch"
       /\ (AtReturn /\ last_failed /\ FeedHasPlane(chunk)) =>
             /\ g_closest_plane.distance_km = MinDistance(chunk.item.elems)
             /\ g_closest_plane.hex =
                   ShownText(FirstNearest(chunk.item.elems).hex, 9)]_vars

C20_Witness ==
    /\ AtReturn
    /\ last_failed
    /\ prev_start >= 0
    /\ cycle_end > prev_start
    /\ cycle_start - cycle_end > REFRESH_INTERVAL_SECONDS * 1000
    /\ feed_requests = 1
    /\ FeedHasPlane(chunk)
    /\ g_closest_plane.hex = NearEast.hex.valuestring

\* a statement of fetch_and_process_data() can be executed
CycleStep ==
    \/ FetchInit
    \/ FeedPerformTiming
    \/ Publish
    \/ ApiPerformTiming
    \/ ApiField
    \/ ResetStep
    \/ Return

\* C21: a started cycle returns to the main loop whatever the outcomes of its
\* requests: neither transfer lasts longer than CURLOPT_TIMEOUT (the lookup on
\* the reused handle included), so the cycle is over within two timeouts; in
\* every state of the cycle its next statement can be executed; and the
\* process ends only on a quit event, never on an outcome of a request.
C21_CycleReturns ==
    /\ RequestInFlight => ticks - request_start <= CURLOPT_TIMEOUT * 1000
    /\ InCycle =>
          /\ ticks - cycle_start <= 2 * CURLOPT_TIMEOUT * 1000
          /\ ENABLED CycleStep
    /\ pc = "done" => ~running

C21_Witness ==
    /\ AtReturn
    /\ FeedHasPlane(chunk)
    /\ api_chunk.res = "CURLE_OPERATION_TIMEDOUT"
    /\ api_requests = 1
    /\ ticks - cycle_start > CURLOPT_TIMEOUT * 1000
    /\ g_closest_plane.registration = NA

\* no cycle with a parsed feed has returned, and none is under way
NoSuccessYet == ~succeeded_once /\ ~(InCycle /\ FeedSucceeded(chunk))

\* C22: the first cycle starts when the clock shows more than 5000 ms; until
\* the first cycle with a parsed feed the record is the one of start-up
\* ("Waiting for data...", blank identifiers, distance at the sentinel,
\* bearing 0), the alert flag is down and no sound has been played.
C22_StartUp ==
    /\ cycle_start >= 0 => cycle_start > REFRESH_INTERVAL_SECONDS * 1000
    /\ InCycle => ticks > REFRESH_INTERVAL_SECONDS * 1000
    /\ NoSuccessYet =>
          /\ g_closest_plane.flight = WAITING_FOR_DATA
          /\ g_closest_plane.hex = BLANK /\ g_closest_plane.squawk = BLANK
          /\ g_closest_plane.registration = BLANK
          /\ g_closest_plane.aircraft_type = BLANK
          /\ g_closest_plane.operator = BLANK
          /\ g_closest_plane.distance_km = DISTANCE_SENTINEL
          /\ g_closest_plane.bearing_deg = 0
          /\ ~proximity_alert_triggered
          /\ ~sound_played

C22_Witness ==
    /\ pc = "render"
    /\ NoSuccessYet
    /\ prev_start >= 0
    /\ cycle_start > prev_start
    /\ feed_requests = 1
    /\ last_failed
    /\ g_closest_plane.flight = WAITING_FOR_DATA

====
